---- MODULE Spec2Model ----
(***************************************************************************)
(* Model of the unik UUID crate: the Layout byte codec, the layout! macro, *)
(* the string parser UUID::from_str, the three display forms, the v2 and   *)
(* v3 generators and ClockSeq::new.                                        *)
(*                                                                         *)
(* Bytes are integers 0..255 and u16 values are integers 0..65535.  TLC    *)
(* integers are 32 bits signed, so a u32 or u64 value is held as the       *)
(* sequence of its base-256 digits, least significant first.  Source       *)
(* indices are 0-based; At(s, i) reads the element the source calls s[i].  *)
(* A string is the sequence of its UTF-8 bytes; an ASCII byte is written   *)
(* as the one-character string of its character.                           *)
(***************************************************************************)
EXTENDS Integers, Sequences, FiniteSets, TLC

VARIABLES
    op,         \* the operation that ran last
    bytes,      \* the buffer handed to from_bytes, or the digest v3 computed
    layout,     \* the current Layout, None before the first one
    origin,     \* the operation that produced layout
    uuid,       \* layout.generate() once it ran
    text,       \* the rendering of uuid, fmt naming the form
    fmt,
    formatted,  \* the Layout, with its origin, whose rendering from_str parsed
    us,         \* the argument of the last from_str call
    result,     \* what that call returned
    cell,       \* per thread: the AtomicU16 local to its ClockSeq::new call
    pc,         \* per thread: position inside ClockSeq::new
    returned    \* the values ClockSeq::new returned so far, in order

codecVars == <<op, bytes, layout, origin, uuid, text, fmt, formatted, us, result>>
clockVars == <<cell, pc, returned>>
vars == <<op, bytes, layout, origin, uuid, text, fmt, formatted, us, result,
          cell, pc, returned>>

----------------------------------------------------------------------------
(* Bounds of the model.                                                    *)

\* number of base byte patterns the input buffers are built from, minus one
MaxSeed == 0
\* number of ClockSeq::new calls in one behaviour
MaxCalls == 3

----------------------------------------------------------------------------
(* Values.                                                                 *)

None == <<>>
Some(x) == <<x>>

At(s, i) == s[i + 1]

Byte == 0..255

RECURSIVE Pow(_, _)
Pow(b, n) == IF n = 0 THEN 1 ELSE b * Pow(b, n - 1)

\* x >> n and x << n on a value of the given width
Shr(x, n) == x \div Pow(2, n)
Shl(x, n, width) == (x * Pow(2, n)) % Pow(2, width)

RECURSIVE BitAnd(_, _)
BitAnd(x, y) ==
    IF x = 0 \/ y = 0 THEN 0
    ELSE (IF x % 2 = 1 /\ y % 2 = 1 THEN 1 ELSE 0) + 2 * BitAnd(x \div 2, y \div 2)

RECURSIVE BitOr(_, _)
BitOr(x, y) ==
    IF x = 0 THEN y
    ELSE IF y = 0 THEN x
    ELSE (IF x % 2 = 1 \/ y % 2 = 1 THEN 1 ELSE 0) + 2 * BitOr(x \div 2, y \div 2)

Ok(v) == [kind |-> "Ok", val |-> v]
Err(m) == [kind |-> "Err", val |-> m]
Panic == [kind |-> "panic", val |-> "index out of range or not a char boundary"]

\* enum Version { TIME = 1, DCE, MD5, RAND, SHA1 }
VersionTag == [TIME |-> 1, DCE |-> 2, MD5 |-> 3, RAND |-> 4, SHA1 |-> 5]
\* enum Variant { NCS = 0, RFC4122, MS, FUT }
VariantTag == [NCS |-> 0, RFC4122 |-> 1, MS |-> 2, FUT |-> 3]

----------------------------------------------------------------------------
(* Layout codec.                                                           *)

u16_from_le_bytes(bs) == At(bs, 0) + 256 * At(bs, 1)
u16_to_le_bytes(x) == <<x % 256, (x \div 256) % 256>>
\* a u32 is held as its four base-256 digits, least significant first
u32_from_le_bytes(bs) == <<At(bs, 0), At(bs, 1), At(bs, 2), At(bs, 3)>>
u32_to_le_bytes(x) == x

MacAddressNew(bs) == bs
NodeBytes(node) == node

from_bytes(b) ==
    [field_low |-> u32_from_le_bytes(<<At(b, 3), At(b, 2), At(b, 1), At(b, 0)>>),
     field_mid |-> u16_from_le_bytes(<<At(b, 5), At(b, 4)>>),
     field_high_and_version |-> u16_from_le_bytes(<<At(b, 7), At(b, 6)>>),
     clock_seq_high_and_reserved |-> At(b, 8),
     clock_seq_low |-> At(b, 9),
     node |-> MacAddressNew(<<At(b, 10), At(b, 11), At(b, 12), At(b, 13),
                              At(b, 14), At(b, 15)>>)]

\* generate with the two bytes of field_mid in the integer's own order
generate_mid_le(l) ==
    <<At(u32_to_le_bytes(l.field_low), 3),
      At(u32_to_le_bytes(l.field_low), 2),
      At(u32_to_le_bytes(l.field_low), 1),
      At(u32_to_le_bytes(l.field_low), 0),
      At(u16_to_le_bytes(l.field_mid), 0),
      At(u16_to_le_bytes(l.field_mid), 1),
      At(u16_to_le_bytes(l.field_high_and_version), 1),
      At(u16_to_le_bytes(l.field_high_and_version), 0),
      l.clock_seq_high_and_reserved,
      l.clock_seq_low,
      At(NodeBytes(l.node), 0),
      At(NodeBytes(l.node), 1),
      At(NodeBytes(l.node), 2),
      At(NodeBytes(l.node), 3),
      At(NodeBytes(l.node), 4),
      At(NodeBytes(l.node), 5)>>

generate(l) ==
    <<At(u32_to_le_bytes(l.field_low), 3),
      At(u32_to_le_bytes(l.field_low), 2),
      At(u32_to_le_bytes(l.field_low), 1),
      At(u32_to_le_bytes(l.field_low), 0),
      At(u16_to_le_bytes(l.field_mid), 1),
      At(u16_to_le_bytes(l.field_mid), 0),
      At(u16_to_le_bytes(l.field_high_and_version), 1),
      At(u16_to_le_bytes(l.field_high_and_version), 0),
      l.clock_seq_high_and_reserved,
      l.clock_seq_low,
      At(NodeBytes(l.node), 0),
      At(NodeBytes(l.node), 1),
      At(NodeBytes(l.node), 2),
      At(NodeBytes(l.node), 3),
      At(NodeBytes(l.node), 4),
      At(NodeBytes(l.node), 5)>>

get_version(l) ==
    LET v == Shr(l.field_high_and_version, 12) IN
    CASE v = 1 -> Ok("TIME")
      [] v = 2 -> Ok("DCE")
      [] v = 3 -> Ok("MD5")
      [] v = 4 -> Ok("RAND")
      [] v = 5 -> Ok("SHA1")
      [] OTHER -> Err("Invalid version")

get_variant(l) ==
    LET v == Shr(l.clock_seq_high_and_reserved, 4) IN
    CASE v = 0 -> Ok("NCS")
      [] v = 1 -> Ok("RFC4122")
      [] v = 2 -> Ok("MS")
      [] v = 3 -> Ok("FUT")
      [] OTHER -> Err("Invalid variant")

\* the layout! macro without the mask on its ninth argument
LayoutMacroNoMask(b0, b1, b2, b3, b4, b5, b6, b7, b8, b9, b10, b11, b12, b13, b14, b15) ==
    [field_low |-> <<b0, b1, b2, b3>>,
     field_mid |-> BitOr(b4, Shl(b5, 8, 16)),
     field_high_and_version |-> BitOr(b6, Shl(b7, 8, 16)),
     clock_seq_high_and_reserved |-> BitOr(b8, Shl(VariantTag.RFC4122, 4, 8)),
     clock_seq_low |-> b9,
     node |-> MacAddressNew(<<b10, b11, b12, b13, b14, b15>>)]

\* the layout! macro; the four bytes of field_low are disjoint in the u32,
\* so the value is the digits b0 (least significant) to b3
LayoutMacro(b0, b1, b2, b3, b4, b5, b6, b7, b8, b9, b10, b11, b12, b13, b14, b15) ==
    [field_low |-> <<b0, b1, b2, b3>>,
     field_mid |-> BitOr(b4, Shl(b5, 8, 16)),
     field_high_and_version |-> BitOr(b6, Shl(b7, 8, 16)),
     clock_seq_high_and_reserved |->
         BitOr(BitAnd(b8, 15), Shl(VariantTag.RFC4122, 4, 8)),
     clock_seq_low |-> b9,
     node |-> MacAddressNew(<<b10, b11, b12, b13, b14, b15>>)]

----------------------------------------------------------------------------
(* Strings: the display forms and UUID::from_str.                          *)

LowerDigits == <<"0", "1", "2", "3", "4", "5", "6", "7", "8", "9",
                 "a", "b", "c", "d", "e", "f">>
UpperDigits == <<"0", "1", "2", "3", "4", "5", "6", "7", "8", "9",
                 "A", "B", "C", "D", "E", "F">>

\* the two UTF-8 bytes of a two-byte character; the second is a continuation byte
LeadByte == "<C3>"
ContByte == "<A9>"

\* {:02x} and {:02X} of one byte
Hex02Lower(b) == <<LowerDigits[(b \div 16) + 1], LowerDigits[(b % 16) + 1]>>
Hex02Upper(b) == <<UpperDigits[(b \div 16) + 1], UpperDigits[(b % 16) + 1]>>

\* impl Display for UUID
Display(u) ==
    Hex02Lower(At(u, 0)) \o Hex02Lower(At(u, 1)) \o Hex02Lower(At(u, 2)) \o
    Hex02Lower(At(u, 3)) \o Hex02Lower(At(u, 4)) \o Hex02Lower(At(u, 5)) \o
    Hex02Lower(At(u, 6)) \o Hex02Lower(At(u, 7)) \o Hex02Lower(At(u, 8)) \o
    Hex02Lower(At(u, 9)) \o Hex02Lower(At(u, 10)) \o Hex02Lower(At(u, 11)) \o
    Hex02Lower(At(u, 12)) \o Hex02Lower(At(u, 13)) \o Hex02Lower(At(u, 14)) \o
    Hex02Lower(At(u, 15))

\* impl LowerHex for UUID
LowerHex(u) ==
    Hex02Lower(At(u, 0)) \o Hex02Lower(At(u, 1)) \o Hex02Lower(At(u, 2)) \o
    Hex02Lower(At(u, 3)) \o <<"-">> \o
    Hex02Lower(At(u, 4)) \o Hex02Lower(At(u, 5)) \o <<"-">> \o
    Hex02Lower(At(u, 6)) \o Hex02Lower(At(u, 7)) \o <<"-">> \o
    Hex02Lower(At(u, 8)) \o Hex02Lower(At(u, 9)) \o <<"-">> \o
    Hex02Lower(At(u, 10)) \o Hex02Lower(At(u, 11)) \o Hex02Lower(At(u, 12)) \o
    Hex02Lower(At(u, 13)) \o Hex02Lower(At(u, 14)) \o Hex02Lower(At(u, 15))

\* impl UpperHex for UUID
UpperHex(u) ==
    Hex02Upper(At(u, 0)) \o Hex02Upper(At(u, 1)) \o Hex02Upper(At(u, 2)) \o
    Hex02Upper(At(u, 3)) \o <<"-">> \o
    Hex02Upper(At(u, 4)) \o Hex02Upper(At(u, 5)) \o <<"-">> \o
    Hex02Upper(At(u, 6)) \o Hex02Upper(At(u, 7)) \o <<"-">> \o
    Hex02Upper(At(u, 8)) \o Hex02Upper(At(u, 9)) \o <<"-">> \o
    Hex02Upper(At(u, 10)) \o Hex02Upper(At(u, 11)) \o Hex02Upper(At(u, 12)) \o
    Hex02Upper(At(u, 13)) \o Hex02Upper(At(u, 14)) \o Hex02Upper(At(u, 15))

\* char::to_digit(16)
IsHexDigit(c) ==
    \E i \in 1..16 : LowerDigits[i] = c \/ UpperDigits[i] = c
to_digit(c) ==
    (CHOOSE i \in 1..16 : LowerDigits[i] = c \/ UpperDigits[i] = c) - 1

\* u8::from_str_radix(s, 16): an unsigned parse takes a leading '+' as a
\* sign and a leading '-' as a digit, which it is not
RECURSIVE DigitsValue(_, _)
DigitsValue(ds, acc) ==
    IF ds = <<>> THEN Ok(acc)
    ELSE IF ~IsHexDigit(Head(ds)) THEN Err("InvalidDigit")
    ELSE IF acc * 16 + to_digit(Head(ds)) > 255 THEN Err("PosOverflow")
    ELSE DigitsValue(Tail(ds), acc * 16 + to_digit(Head(ds)))

from_str_radix(s) ==
    IF s = <<>> THEN Err("Empty")
    ELSE IF Head(s) \in {"+", "-"} /\ Tail(s) = <<>> THEN Err("InvalidDigit")
    ELSE IF Head(s) = "+" THEN DigitsValue(Tail(s), 0)
    ELSE DigitsValue(s, 0)

is_ascii_whitespace(c) == c \in {" ", "\t", "\n", "\r", "\f"}

\* str::is_char_boundary
is_char_boundary(s, i) ==
    \/ i = 0
    \/ i = Len(s)
    \/ i < Len(s) /\ At(s, i) # ContByte

\* &us[a..b] panics unless a <= b <= len and both ends are char boundaries
SliceOk(s, a, b) ==
    a <= b /\ b <= Len(s) /\ is_char_boundary(s, a) /\ is_char_boundary(s, b)

KeepChar(c) == ~is_ascii_whitespace(c) /\ c # "-"
\* us.retain(|c| !c.is_ascii_whitespace() && c != '-')
retain(s) == SelectSeq(s, KeepChar)

contains(s, c) == \E i \in 1..Len(s) : s[i] = c

\* the exclusive end of `for i in 0..15`
ParseLoopEnd == 15

\* the loop of from_str from index i on; bs is the byte array so far
RECURSIVE ParseLoop(_, _, _)
ParseLoop(s, i, bs) ==
    IF i >= ParseLoopEnd THEN Ok(bs)
    ELSE IF ~SliceOk(s, i * 2, i * 2 + 2) THEN Panic
    ELSE LET r == from_str_radix(SubSeq(s, i * 2 + 1, i * 2 + 2)) IN
         IF r.kind = "Err" THEN Err("Invalid UUID string")
         ELSE ParseLoop(s, i + 1, [bs EXCEPT ![i + 1] = r.val])

\* from_str handing the seventh and eighth bytes to layout! in parsed order
from_str_high_swapped(s) ==
    IF Len(s) = 36 \/ Len(s) = 32
    THEN LET stripped == IF contains(s, "-") THEN retain(s) ELSE s
             r == ParseLoop(stripped, 0, [i \in 1..16 |-> 0])
             b == r.val
         IN  IF r.kind # "Ok" THEN r
             ELSE Ok(LayoutMacro(At(b, 3), At(b, 2), At(b, 1), At(b, 0),
                                 At(b, 5), At(b, 4), At(b, 6), At(b, 7),
                                 At(b, 9), At(b, 8), At(b, 10), At(b, 11),
                                 At(b, 12), At(b, 13), At(b, 14), At(b, 15)))
    ELSE Err("Invalid UUID string")

from_str(s) ==
    IF Len(s) = 36 \/ Len(s) = 32
    THEN LET stripped == IF contains(s, "-") THEN retain(s) ELSE s
             r == ParseLoop(stripped, 0, [i \in 1..16 |-> 0])
             b == r.val
         IN  IF r.kind # "Ok" THEN r
             ELSE Ok(LayoutMacro(At(b, 3), At(b, 2), At(b, 1), At(b, 0),
                                 At(b, 5), At(b, 4), At(b, 7), At(b, 6),
                                 At(b, 9), At(b, 8), At(b, 10), At(b, 11),
                                 At(b, 12), At(b, 13), At(b, 14), At(b, 15)))
    ELSE Err("Invalid UUID string")

----------------------------------------------------------------------------
(* Generators.                                                             *)

\* to_ne_bytes()[k] of a value held as n base-256 digits; the byte order is
\* the build target's
to_ne_bytes(x, k, endian) ==
    IF endian = "little" THEN At(x, k) ELSE At(x, Len(x) - 1 - k)

\* enum Domain { PERSON = 0, GROUP }
DomainTag == [PERSON |-> 0, GROUP |-> 1]

\* UUID::v2; id is what getuid, getgid or getpid returned, cs the value of
\* crate::clock_seq_high_and_reserved()
v2(time, node, domain, id, cs, endian) ==
    LayoutMacro(to_ne_bytes(id, 0, endian),
                to_ne_bytes(id, 1, endian),
                to_ne_bytes(id, 2, endian),
                to_ne_bytes(id, 3, endian),
                to_ne_bytes(time, 0, endian),
                to_ne_bytes(time, 1, endian),
                to_ne_bytes(time, 2, endian),
                Shl(VersionTag.DCE, 4, 8),
                to_ne_bytes(cs, 0, endian),
                DomainTag[domain],
                At(NodeBytes(node), 0),
                At(NodeBytes(node), 1),
                At(NodeBytes(node), 2),
                At(NodeBytes(node), 3),
                At(NodeBytes(node), 4),
                At(NodeBytes(node), 5))

\* UUID::v3 from the digest on; hash is digest().bytes()[..16]
v3(digest) ==
    LET hash == SubSeq(digest, 1, 16) IN
    LayoutMacro(At(hash, 0), At(hash, 1), At(hash, 2), At(hash, 3),
                At(hash, 4), At(hash, 5), At(hash, 6),
                Shl(VersionTag.MD5, 4, 8),
                At(hash, 8), At(hash, 9), At(hash, 10), At(hash, 11),
                At(hash, 12), At(hash, 13), At(hash, 14), At(hash, 15))

\* AtomicU16::fetch_add(1) on a cell holding c: the value returned and the
\* value stored, which wraps at 16 bits
fetch_add_old(c) == c
fetch_add_new(c) == (c + 1) % 65536

----------------------------------------------------------------------------
(* Inputs.                                                                 *)

\* a buffer of n distinct bytes, with the byte at index pos set to v
Buf(seed, pos, v, n) ==
    [i \in 1..n |-> IF i = pos + 1 THEN v ELSE (seed * 37 + i * 13) % 256]

Seeds == 0..MaxSeed

ByteSamples == {0, 1, 15, 16, 127, 128, 255}

\* every value of the bytes that carry the version, the variant and the
\* clock sequence, sampled values of the others; the bytes left alone are
\* pairwise distinct
Buffers ==
    {Buf(seed, pos, v, 16) : seed \in Seeds, pos \in 6..9, v \in Byte}
    \cup {Buf(seed, pos, v, 16) : seed \in Seeds, pos \in 0..15, v \in ByteSamples}

\* a SHA-1 digest is 20 bytes; sha1 is an external crate and the digest of
\* a message is taken to be any 20 bytes
Digests == {Buf(seed, pos, v, 20) : seed \in Seeds, pos \in 0..19, v \in ByteSamples}

\* u32 identity numbers and u64 timestamps, as base-256 digits
Ids == {<<0, 0, 0, 0>>, <<232, 3, 0, 0>>, <<1, 2, 3, 255>>}
Times == {<<0, 0, 0, 0, 0, 0, 0, 0>>, <<17, 34, 51, 68, 85, 102, 119, 1>>,
          <<255, 255, 255, 255, 255, 255, 255, 15>>}
Nodes == {<<255, 255, 255, 255, 255, 255>>, <<2, 66, 172, 18, 0, 2>>}
Domains == {"PERSON", "GROUP"}
Endians == {"little", "big"}
\* the value of crate::clock_seq_high_and_reserved(), whose low byte is any byte
ClockBytes == {<<v>> : v \in ByteSamples}

\* the strings of tests::parse_string, as the bytes their digits spell
TestVectors ==
    {<<171, 114, 2, 104, 184, 63, 17, 236, 185, 9, 2, 66, 172, 18, 0, 2>>,
     <<0, 0, 3, 232, 194, 43, 33, 236, 189, 1, 212, 190, 217, 64, 142, 204>>,
     <<36, 72, 189, 149, 0, 202, 54, 80, 22, 15, 51, 1, 166, 145, 178, 108>>,
     <<106, 102, 80, 56, 36, 207, 76, 246, 155, 97, 5, 240, 194, 252, 108, 8>>,
     <<153, 29, 168, 102, 131, 176, 85, 80, 27, 239, 55, 161, 165, 177, 251, 48>>}

ReplaceAt(s, p, c) == [s EXCEPT ![p + 1] = c]

\* hyphenated strings with every version digit and every variant digit
VersionVariantBuffers ==
    {[Buf(seed, 6, ver * 16 + 3, 16) EXCEPT ![9] = var * 16 + 9] :
        seed \in Seeds, ver \in 0..15, var \in 0..15}
WellFormedStrings ==
    {LowerHex(b) : b \in VersionVariantBuffers \cup TestVectors}
    \cup {UpperHex(b) : b \in TestVectors}

Base36(seed) == LowerHex(Buf(seed, 0, 171, 16))
Base32(seed) == Display(Buf(seed, 0, 171, 16))

\* characters put in place of a digit or a hyphen
MutChars == {"g", "z", "-", " ", "+", "F"}

MutatedStrings ==
    {ReplaceAt(Base36(seed), p, c) : seed \in Seeds, p \in 0..35, c \in MutChars}
    \cup {ReplaceAt(Base32(seed), p, c) : seed \in Seeds, p \in 0..31, c \in MutChars}

\* every prefix of a hyphenated string, and strings one character longer
OtherLengthStrings ==
    {SubSeq(Base36(seed), 1, n) : seed \in Seeds, n \in 0..35}
    \cup {Base36(seed) \o <<"0">> : seed \in Seeds}
    \cup {Base32(seed) \o <<"0">> : seed \in Seeds}

\* a two-byte character in place of two digits of a compact string
MultiByteStrings ==
    {ReplaceAt(ReplaceAt(Base32(seed), p, LeadByte), p + 1, ContByte) :
        seed \in Seeds, p \in 0..30}

\* strings of hyphens only, and thirty digits with six hyphens
HyphenStrings ==
    {[i \in 1..n |-> "-"] : n \in {32, 36}}
    \cup {SubSeq(Base32(seed), 1, 30) \o [i \in 1..6 |-> "-"] : seed \in Seeds}

CallerStrings ==
    WellFormedStrings \cup MutatedStrings \cup OtherLengthStrings
    \cup MultiByteStrings \cup HyphenStrings

ClockThreads == {"t1", "t2"}
RandSamples == {0, 1, 41, 65534, 65535}

----------------------------------------------------------------------------
(* The state machine.                                                      *)

Init ==
    /\ op = "none"
    /\ bytes = None
    /\ layout = None
    /\ origin = "none"
    /\ uuid = None
    /\ text = None
    /\ fmt = "none"
    /\ formatted = None
    /\ us = None
    /\ result = None
    /\ cell = [t \in ClockThreads |-> None]
    /\ pc = [t \in ClockThreads |-> "idle"]
    /\ returned = <<>>

\* nothing was constructed or parsed yet
Fresh == op = "none"

\* the first Layout of a behaviour
NewLayout(name, input, l) ==
    /\ Fresh
    /\ op' = name
    /\ bytes' = input
    /\ layout' = Some(l)
    /\ origin' = name
    /\ uuid' = None
    /\ text' = None
    /\ fmt' = "none"
    /\ formatted' = None
    /\ us' = None
    /\ result' = None
    /\ UNCHANGED clockVars

FromBytes ==
    \E b \in Buffers : NewLayout("from_bytes", Some(b), from_bytes(b))

V2 ==
    \E time \in Times, node \in Nodes, domain \in Domains, id \in Ids,
       cs \in ClockBytes, endian \in Endians :
        NewLayout("v2", None, v2(time, node, domain, id, cs, endian))

V3 ==
    \E digest \in Digests : NewLayout("v3", Some(digest), v3(digest))

Generate ==
    /\ layout # None
    /\ uuid = None
    /\ op' = "generate"
    /\ uuid' = Some(generate(layout[1]))
    /\ formatted' = None
    /\ us' = None
    /\ result' = None
    /\ UNCHANGED <<bytes, layout, origin, text, fmt>>
    /\ UNCHANGED clockVars

Render(mode, u) ==
    CASE mode = "display" -> Display(u)
      [] mode = "x" -> LowerHex(u)
      [] mode = "X" -> UpperHex(u)

Format ==
    /\ uuid # None
    /\ \E mode \in {"display", "x", "X"} :
        /\ op' = "format"
        /\ text' = Some(Render(mode, uuid[1]))
        /\ fmt' = mode
    /\ UNCHANGED <<bytes, layout, origin, uuid, formatted, us, result>>
    /\ UNCHANGED clockVars

\* from_str on a caller's string or on the rendering in text
FromStr ==
    \E rendered \in {TRUE, FALSE} :
    \E s \in IF rendered THEN {text[i] : i \in 1..Len(text)}
            ELSE IF Fresh THEN CallerStrings ELSE {} :
        LET r == from_str(s) IN
        /\ op' = "from_str"
        /\ us' = Some(s)
        /\ result' = Some(r)
        /\ formatted' = IF rendered
                        THEN Some([layout |-> layout[1], origin |-> origin])
                        ELSE None
        /\ fmt' = IF rendered THEN fmt ELSE "caller"
        /\ layout' = IF r.kind = "Ok" THEN Some(r.val) ELSE None
        /\ origin' = IF r.kind = "Ok" THEN "from_str" ELSE "none"
        /\ bytes' = None
        /\ uuid' = None
        /\ text' = None
        /\ UNCHANGED clockVars

Next == FromBytes \/ V2 \/ V3 \/ Generate \/ Format \/ FromStr

Spec == Init /\ [][Next]_vars

\* ClockSeq::new(rand), first half: AtomicU16::new(rand)
ClockSeqNew(t) ==
    /\ pc[t] = "idle"
    /\ Len(returned) + Cardinality({o \in ClockThreads : pc[o] # "idle"}) < MaxCalls
    /\ \E rand \in RandSamples : cell' = [cell EXCEPT ![t] = Some(rand)]
    /\ pc' = [pc EXCEPT ![t] = "fetch_add"]
    /\ UNCHANGED returned
    /\ UNCHANGED codecVars

\* second half: fetch_add(1, SeqCst) on the local cell, whose old value is
\* the value of the call
ClockSeqFetchAdd(t) ==
    /\ pc[t] = "fetch_add"
    /\ returned' = Append(returned, fetch_add_old(cell[t][1]))
    /\ cell' = [cell EXCEPT ![t] = Some(fetch_add_new(cell[t][1]))]
    /\ pc' = [pc EXCEPT ![t] = "drop"]
    /\ UNCHANGED codecVars

\* the call returns and its temporary AtomicU16 is dropped
ClockSeqDrop(t) ==
    /\ pc[t] = "drop"
    /\ cell' = [cell EXCEPT ![t] = None]
    /\ pc' = [pc EXCEPT ![t] = "idle"]
    /\ UNCHANGED returned
    /\ UNCHANGED codecVars

ClockNext ==
    \E t \in ClockThreads :
        ClockSeqNew(t) \/ ClockSeqFetchAdd(t) \/ ClockSeqDrop(t)

SpecClock == Init /\ [][ClockNext]_vars

----------------------------------------------------------------------------
(* Properties.                                                             *)

\* C1: serializing the Layout parsed from a 16-byte buffer returns the
\* buffer unchanged, whatever its version and variant bits.
C1_BytesRoundTrip ==
    (origin = "from_bytes" /\ uuid # None) => uuid = bytes

\* a buffer whose variant byte is 0xff went through from_bytes and generate
C1_Witness ==
    /\ origin = "from_bytes"
    /\ uuid # None
    /\ At(bytes[1], 8) = 255
    /\ At(uuid[1], 4) # At(uuid[1], 5)

\* the variant the prefix code on the top bits of a byte names
PrefixVariant(b) ==
    IF b < 128 THEN "NCS"
    ELSE IF b < 192 THEN "RFC4122"
    ELSE IF b < 224 THEN "MS"
    ELSE "FUT"

\* C2: get_variant classifies clock_seq_high_and_reserved by the prefix code
\* 0xxx NCS, 10xx RFC4122, 110x MS, 111x FUT.
C2_VariantPrefixCode ==
    layout # None =>
        get_variant(layout[1]) = Ok(PrefixVariant(layout[1].clock_seq_high_and_reserved))

\* C3: the values ClockSeq::new returned, to sequential or concurrent
\* callers, are pairwise distinct (the calls of a behaviour are far fewer
\* than the 65536 of a wraparound).
C3_ClockSeqDistinct ==
    \A i, j \in 1..Len(returned) : i # j => returned[i] # returned[j]

\* C4: a Layout made by v2 reads version DCE, one made by v3 reads version
\* MD5, and both read variant RFC4122.
C4_GeneratorStamping ==
    /\ origin = "v2" =>
        /\ get_version(layout[1]) = Ok("DCE")
        /\ get_variant(layout[1]) = Ok("RFC4122")
    /\ origin = "v3" =>
        /\ get_version(layout[1]) = Ok("MD5")
        /\ get_variant(layout[1]) = Ok("RFC4122")

\* v3 ran on a digest whose ninth byte has all its high bits set
C4_Witness ==
    /\ origin = "v3"
    /\ At(bytes[1], 8) = 255
    /\ layout[1].clock_seq_high_and_reserved = 31

\* C5: from_str returns Ok(Layout) or Err("Invalid UUID string") for every
\* string and never panics.
C5_FromStrNeverPanics ==
    op = "from_str" =>
        \/ result[1].kind = "Ok"
        \/ result[1] = Err("Invalid UUID string")

\* a character that is neither a hex digit nor stripped
HasNonHex(s) == \E i \in 1..Len(s) : KeepChar(s[i]) /\ ~IsHexDigit(s[i])

\* C6: from_str returns an error for every string whose length is neither
\* 32 nor 36 and for every string of length 32 or 36 that holds a non-hex
\* character, at any position, once hyphens and whitespace are stripped.
C6_FromStrRejects ==
    (op = "from_str" /\ (Len(us[1]) \notin {32, 36} \/ HasNonHex(us[1])))
        => result[1].kind = "Err"

\* C7: parsing the hyphenated lowercase or uppercase rendering of a Layout
\* made by a generator or by from_str gives back that Layout.
C7_StringRoundTrip ==
    (/\ op = "from_str"
     /\ formatted # None
     /\ fmt \in {"x", "X"}
     /\ formatted[1].origin \in {"v2", "v3", "from_str"})
        => result[1] = Ok(formatted[1].layout)

\* 8-4-4-4-12 hex digits
IsWellFormed36(s) ==
    /\ Len(s) = 36
    /\ \A i \in 0..35 :
        IF i \in {8, 13, 18, 23} THEN At(s, i) = "-" ELSE IsHexDigit(At(s, i))

VersionName(d) ==
    IF \E n \in DOMAIN VersionTag : VersionTag[n] = d
    THEN Ok(CHOOSE n \in DOMAIN VersionTag : VersionTag[n] = d)
    ELSE Err("Invalid version")

\* C8: a well-formed 36-character string that from_str accepts gives a
\* Layout whose version is the one its version digit (1..5) names and whose
\* variant is RFC4122 whatever its variant digit.
C8_ParsedVersionVariant ==
    (op = "from_str" /\ IsWellFormed36(us[1]) /\ result[1].kind = "Ok") =>
        /\ get_variant(result[1].val) = Ok("RFC4122")
        /\ to_digit(At(us[1], 14)) \in 1..5 =>
            get_version(result[1].val) = VersionName(to_digit(At(us[1], 14)))

\* a string with version digit 5 and variant digit f was accepted
C8_Witness ==
    /\ op = "from_str"
    /\ IsWellFormed36(us[1])
    /\ result[1].kind = "Ok"
    /\ At(us[1], 14) = "5"
    /\ At(us[1], 19) = "f"
    /\ At(us[1], 16) # At(us[1], 17)

\* C9: the three most significant bits of clock_seq_high_and_reserved of a
\* Layout made by v2 or v3 are 100.
C9_VariantBits100 ==
    origin \in {"v2", "v3"} => Shr(layout[1].clock_seq_high_and_reserved, 5) = 4

\* C10: the bytes of v3's serialized Layout are the first 16 digest bytes,
\* in order, but for the version nibble of byte 6 and the variant tag of
\* byte 8.
C10_DigestBytesKept ==
    (origin = "v3" /\ uuid # None) =>
        /\ \A i \in (0..15) \ {6, 8} : At(uuid[1], i) = At(bytes[1], i)
        /\ At(uuid[1], 6) % 16 = At(bytes[1], 6) % 16
        /\ At(uuid[1], 8) % 16 = At(bytes[1], 8) % 16

====
